---- MODULE Spec2Model ----
(***************************************************************************)
(* The document store of server.js: the in-memory document `data`, the     *)
(* persisted file data/data.json, the startup load and the REST handlers   *)
(* for links, categories and configuration; the notes directory            *)
(* data/projects with its handlers; the outbound calls of the status       *)
(* check and the proxies; the admin login; the notes editor of script.js   *)
(* with its autosave timer and the requests it has in flight.              *)
(*                                                                         *)
(* JavaScript strings are sequences of one-character strings, so that      *)
(* trim() is computed.  JavaScript values whose type varies at run time    *)
(* (link.categoryId, category.order, request parameters) are tagged        *)
(* records [t |-> type, v |-> integer payload].  An object key that is     *)
(* missing is a name missing from the DOMAIN of the record.                *)
(***************************************************************************)
EXTENDS Integers, Sequences, FiniteSets, TLC

VARIABLES
    data,            \* the in-memory document
    file,            \* data/data.json
    pc,              \* "start" before loadData(), "running" after app.listen
    resp,            \* the answer to the last request
    issued,          \* history: the ids returned by creates of this process
    diskWritable,    \* whether fs.writeFileSync(DATA_FILE) succeeds
    notes,           \* the files of data/projects: name -> content
    fsAccess,        \* history: the paths last handed to fs by a notes handler
    calls,           \* the outbound HTTP calls in flight
    loginSucceeded,  \* history: a login was answered with success: true
    client,          \* the notes editor of script.js in one browser tab
    inflight         \* the requests sent whose response has not arrived, in the order sent

vars == <<data, file, pc, resp, issued, diskWritable, notes, fsAccess, calls, loginSucceeded, client, inflight>>

-----------------------------------------------------------------------------
(* Bounds *)

\* Link create is explored while nextId <= MaxId.
MaxId == 2

\* Category create is explored while nextCategoryId <= MaxCategoryId.
MaxCategoryId == 1

\* Outbound calls are started while fewer than MaxCalls are in flight.
MaxCalls == 2

\* ensureNavigationCategory is applied to lists of up to MaxListed
\* categories.
MaxListed == 2

\* The editor sends a request while fewer than MaxInflight are in flight.
MaxInflight == 2

\* Seconds are counted while fewer than MaxUnsaved have passed without a
\* save request.
MaxUnsaved == 3

-----------------------------------------------------------------------------
(* JavaScript values *)

undefined == [t |-> "undefined", v |-> 0]

null == [t |-> "null", v |-> 0]

NaN == [t |-> "NaN", v |-> 0]

Num(n) == [t |-> "number", v |-> n]

\* The string holding the decimal digits of n, e.g. "1" or "-1".
NumStr(n) == [t |-> "string", v |-> n]

\* A non-empty string that does not start with a number, e.g. "abc".
Text == [t |-> "text", v |-> 0]

\* JavaScript truthiness of a tagged value.
Truthy(x) ==
    CASE x.t = "undefined" -> FALSE
      [] x.t = "null" -> FALSE
      [] x.t = "NaN" -> FALSE
      [] x.t = "number" -> x.v # 0
      [] OTHER -> TRUE

\* parseInt(x): the integer a number or a numeric string denotes, else NaN.
parseInt(x) ==
    CASE x.t = "number" -> Num(x.v)
      [] x.t = "string" -> Num(x.v)
      [] OTHER -> NaN

\* n === x for a stored integer n and a tagged value x.
StrictEqNum(n, x) == x.t = "number" /\ x.v = n

\* a === b for two tagged values (NaN equals nothing, not even itself).
StrictEq(a, b) == a.t # "NaN" /\ a = b

\* Object spread { ...a, ...b }.
Merge(a, b) ==
    [k \in DOMAIN a \cup DOMAIN b |-> IF k \in DOMAIN b THEN b[k] ELSE a[k]]

\* What JSON.stringify followed by JSON.parse makes of a tagged value
\* stored under an object key: NaN becomes null.
JsonValue(x) == IF x.t = "NaN" THEN null ELSE x

\* A JSON string with the characters s, and the JSON array [s] holding
\* that one string.
Str(s) == [t |-> "string", s |-> s]

\* A JSON array with the elements `items`; Arr(s) is the array [s].
List(items) == [t |-> "array", items |-> items]

Arr(s) == List(<<Str(s)>>)

ObjectString == <<"[", "o", "b", "j", "e", "c", "t", " ", "O", "b", "j", "e", "c", "t", "]">>

\* The string an array element contributes to Array.prototype.join: a
\* string itself, null nothing, an object '[object Object]'.
elementString(e) ==
    IF "t" \notin DOMAIN e THEN ObjectString
    ELSE IF e.t = "string" THEN e.s
    ELSE <<>>

\* items.join(',')
RECURSIVE join(_)
join(items) ==
    IF items = <<>> THEN <<>>
    ELSE IF Len(items) = 1 THEN elementString(items[1])
    ELSE elementString(items[1]) \o <<",">> \o join(SubSeq(items, 2, Len(items)))

\* x.toString() and the implicit ToString(x) for a JSON string or array
toString(x) == IF x.t = "array" THEN join(x.items) ELSE x.s

-----------------------------------------------------------------------------
(* Strings *)

NAVIGATION == <<"N", "A", "V", "I", "G", "A", "T", "I", "O", "N">>

DefaultHomepageMessage == <<"W", "e", "l", "c", "o", "m", "e", " ", "t", "o", " ", "y", "o", "u", "r", " ", "l", "o", "c", "a", "l", " ", "n", "e", "t", "w", "o", "r", "k", " ", "h", "u", "b">>

DefaultSiteTitle == <<"L", "o", "c", "a", "l", " ", "N", "e", "t", "w", "o", "r", "k", " ", "H", "u", "b">>

DefaultKeyword == <<"<", "/", "t", "h", "i", "n", "k", ">">>

DefaultPrimaryColor == <<"#", "3", "3", "0", "0", "9", "9">>

HexUpper == <<"#", "A", "B", "C", "D", "E", "F">>

HexLower == <<"#", "a", "b", "c", "1", "2", "3">>

Bad == <<"b", "a", "d">>

FiveDigits == <<"#", "A", "B", "C", "D", "E">>

SevenDigits == <<"#", "A", "B", "C", "D", "E", "F", "0">>

NoHash == <<"A", "B", "C", "D", "E", "F", "0">>

NotHex == <<"#", "A", "B", "C", "D", "E", "G">>

Plan == <<"P", "l", "a", "n">>

DotMd == <<".", "m", "d">>

PlanMd == Plan \o DotMd

UpPlanMd == <<".", ".", "/">> \o PlanMd

PlanMdSlash == PlanMd \o <<"/">>

Dot == <<".">>

DotDot == <<".", ".">>

Hi == <<"#", " ", "H", "i">>

Bye == <<"B", "y", "e">>

\* The password of DEFAULT_ADMIN_PASSWORD_HASH
DefaultAdminPassword == <<"p", "a", "s", "s", "w", "o", "r", "d">>

Flowise == <<"f", "l", "o", "w", "i", "s", "e">>

None == <<"n", "o", "n", "e">>

OpenAI == <<"o", "p", "e", "n", "a", "i">>

Ollama == <<"o", "l", "l", "a", "m", "a">>

OllamaUrl == <<"h", "t", "t", "p", ":", "/", "/", "o", "l", "l", "a", "m", "a">>

Tools == <<"T", "o", "o", "l", "s">>

PaddedTools == <<" ", "T", "o", "o", "l", "s", " ">>

Media == <<"M", "e", "d", "i", "a">>

Router == <<"R", "o", "u", "t", "e", "r">>

PaddedRouter == <<" ", "R", "o", "u", "t", "e", "r">>

NAS == <<"N", "A", "S">>

RouterUrl == <<"h", "t", "t", "p", ":", "/", "/", "1", "9", "2", ".", "1", "6", "8", ".", "1", ".", "1">>

Blank == <<" ", " ">>

EmptyString == <<>>

RECURSIVE trimStart(_)
trimStart(s) ==
    IF s # <<>> /\ Head(s) = " " THEN trimStart(Tail(s)) ELSE s

RECURSIVE trimEnd(_)
trimEnd(s) ==
    IF s # <<>> /\ s[Len(s)] = " " THEN trimEnd(SubSeq(s, 1, Len(s) - 1)) ELSE s

\* String.prototype.trim
trim(s) == trimEnd(trimStart(s))

-----------------------------------------------------------------------------
(* The document *)

\* let data = { ... }, the in-memory defaults
DefaultData ==
    [ links |-> <<>>,
      categories |-> <<>>,
      nextId |-> 1,
      nextCategoryId |-> 1,
      homepageMessage |-> DefaultHomepageMessage,
      siteTitle |-> DefaultSiteTitle,
      chatConfig |-> [ provider |-> Flowise,
                       apiUrl |-> EmptyString,
                       chatflowId |-> EmptyString,
                       ollamaBaseUrl |-> EmptyString,
                       ollamaModel |-> EmptyString ],
      filterConfig |-> [ enabled |-> FALSE, keyword |-> DefaultKeyword ],
      colorConfig |-> [ primaryColor |-> Str(DefaultPrimaryColor) ] ]

\* cat.isDefault read as a condition
IsDefault(cat) == "isDefault" \in DOMAIN cat /\ cat.isDefault

\* cat.order, undefined when the key is missing
OrderOf(cat) == IF "order" \in DOMAIN cat THEN cat.order ELSE undefined

\* new Date().toISOString(): the server stores timestamps and never reads
\* one back, so a process run is given one instant, "now"; documents of
\* earlier runs carry "earlier".
Times == {"now"}

\* function ensureNavigationCategory()
ensureNavigationCategory(d, now) ==
    LET navigationExists ==
            \E i \in 1..Len(d.categories) :
                d.categories[i].name = NAVIGATION /\ IsDefault(d.categories[i])
        navigationCategory ==
            [ id |-> -1, name |-> NAVIGATION, private |-> FALSE,
              order |-> Num(-1), isDefault |-> TRUE, createdAt |-> now ]
    IN  IF navigationExists
        THEN d
        ELSE [d EXCEPT !.categories = <<navigationCategory>> \o @,
                       !.nextCategoryId = IF @ <= 0 THEN 1 ELSE @]

\* The three nested config objects loadData merges again after the
\* top-level merge.
ConfigKeys == {"chatConfig", "filterConfig", "colorConfig"}

\* loadData with ensureNavigationCategory() called only inside the
\* `if (fs.existsSync(DATA_FILE))` block.
loadDataEnsureOnlyOnFile(d, f, now) ==
    IF f.kind = "json"
    THEN ensureNavigationCategory(
             [k \in DOMAIN Merge(d, f.doc) |->
                 IF k \in ConfigKeys /\ k \in DOMAIN f.doc
                 THEN Merge(Merge(d, f.doc)[k], f.doc[k])
                 ELSE Merge(d, f.doc)[k]], now)
    ELSE d

\* function loadData(): d is the in-memory document, f the persisted file.
loadData(d, f, now) ==
    IF f.kind = "absent"
    THEN ensureNavigationCategory(d, now)
    ELSE IF f.kind \in {"corrupt", "unreadable"}
    THEN d   \* readFileSync or JSON.parse throws; the catch block logs and returns
    ELSE LET loadedData == f.doc
             merged == Merge(d, loadedData)
             \* data.chatConfig = { ...data.chatConfig, ...loadedData.chatConfig }
             \* is evaluated after data was replaced by the top-level merge
             remerged ==
                 [k \in DOMAIN merged |->
                     IF k \in ConfigKeys /\ k \in DOMAIN loadedData
                     THEN Merge(merged[k], loadedData[k])
                     ELSE merged[k]]
         IN  IF f.kind = "misshapen"
             THEN remerged   \* data.categories.some throws; the catch block as above
             ELSE ensureNavigationCategory(remerged, now)

\* JSON.parse(JSON.stringify(d)): what a later load reads back.
JsonLink(l) == [l EXCEPT !.categoryId = JsonValue(@)]

JsonCategory(c) ==
    IF "order" \in DOMAIN c
    THEN IF c.order.t = "undefined"
         THEN [k \in DOMAIN c \ {"order"} |-> c[k]]
         ELSE [c EXCEPT !.order = JsonValue(@)]
    ELSE c

JsonDocument(d) ==
    [d EXCEPT !.links = [i \in 1..Len(d.links) |-> JsonLink(d.links[i])],
              !.categories = [i \in 1..Len(d.categories) |-> JsonCategory(d.categories[i])]]

\* function saveData(): the file after the call; a failed write is logged
\* and swallowed.
saveData(d, f, writable) ==
    IF writable THEN [kind |-> "json", doc |-> JsonDocument(d)] ELSE f

-----------------------------------------------------------------------------
(* Persisted files the process may find at its first start *)

AbsentFile == [kind |-> "absent"]

CorruptFile == [kind |-> "corrupt"]

\* A document written by an older version: no NAVIGATION category, a
\* category without order, nested config objects with keys missing.
LegacyDoc ==
    [ links |-> << [ id |-> 1, name |-> Router, url |-> RouterUrl,
                     categoryId |-> Num(1), createdAt |-> "earlier" ] >>,
      categories |-> << [ id |-> 1, name |-> Media, private |-> TRUE,
                          createdAt |-> "earlier" ] >>,
      nextId |-> 2,
      nextCategoryId |-> 2,
      chatConfig |-> [ provider |-> Ollama, ollamaBaseUrl |-> OllamaUrl ],
      filterConfig |-> [ enabled |-> TRUE ] ]

\* A document written by saveData of the current version: NAVIGATION is
\* present, link 1 was deleted before the save, every config key is set.
CurrentDoc ==
    [ links |-> << [ id |-> 2, name |-> NAS, url |-> RouterUrl,
                     categoryId |-> null, createdAt |-> "earlier" ] >>,
      categories |-> << [ id |-> -1, name |-> NAVIGATION, private |-> FALSE,
                          order |-> Num(-1), isDefault |-> TRUE,
                          createdAt |-> "earlier" ],
                        [ id |-> 1, name |-> Tools, private |-> FALSE,
                          order |-> Num(1), createdAt |-> "earlier" ] >>,
      nextId |-> 3,
      nextCategoryId |-> 2,
      homepageMessage |-> DefaultHomepageMessage,
      siteTitle |-> Tools,
      chatConfig |-> [ provider |-> Ollama,
                       apiUrl |-> EmptyString,
                       chatflowId |-> EmptyString,
                       ollamaBaseUrl |-> OllamaUrl,
                       ollamaModel |-> Media ],
      filterConfig |-> [ enabled |-> TRUE, keyword |-> Blank ],
      colorConfig |-> [ primaryColor |-> Str(DefaultPrimaryColor) ] ]

\* DATA_FILE exists and readFileSync throws (a directory, no permission).
UnreadableFile == [kind |-> "unreadable"]

\* A JSON value that is neither a string, a number, null nor an array: {}
Object == [t |-> "object", v |-> 0]

\* Documents that are valid JSON with a categories value that is not a
\* list: null, {}, a string, a number; with and without other keys.
MisshapenDocs ==
    { Merge([categories |-> c], other) :
        c \in {null, Object, Text, Num(0)},
        other \in { << >>,
                    [siteTitle |-> Tools],
                    [nextId |-> 2, colorConfig |-> [primaryColor |-> Str(HexUpper)]],
                    [links |-> CurrentDoc.links, nextId |-> 3] } }

\* The persisted files of the failure mode of loadData: "misshapen" is a
\* file of valid JSON whose categories value is not a list.
UnusableFiles ==
    {CorruptFile, UnreadableFile} \cup {[kind |-> "misshapen", doc |-> d] : d \in MisshapenDocs}

InitialFiles ==
    { AbsentFile, CorruptFile,
      [kind |-> "json", doc |-> LegacyDoc],
      [kind |-> "json", doc |-> CurrentDoc] }

-----------------------------------------------------------------------------
(* Responses *)

NoResponse == [status |-> 0, json |-> [success |-> FALSE]]

\* function createApiResponse(success, data, error)
createApiResponse(success, body, error) ==
    IF success
    THEN Merge([success |-> TRUE], body)
    ELSE [success |-> FALSE, error |-> error]

NoBody == [success |-> TRUE]

NoIssued == [links |-> {}, categories |-> {}]

\* data/projects right after ensureProjectDir() created it
NoNotes == << >>

-----------------------------------------------------------------------------
(* Startup *)

\* The notes editor before the page has set it up: no title, no text,
\* currentProjectFile = '', autosaveTimer = null (0: a timer that is due;
\* -1: no timer).  unsaved, touched and deleted are history: touched says
\* that the user has edited or saved since the last click on Delete,
\* deleted names the note whose delete was confirmed with no edit or save
\* since that click.
ClosedEditor ==
    [ title |-> <<>>, editor |-> <<>>, currentProjectFile |-> <<>>,
      autosaveTimer |-> -1, unsaved |-> 0, touched |-> FALSE, deleted |-> <<>> ]

Init ==
    /\ data = DefaultData
    /\ file \in InitialFiles
    /\ pc = "start"
    /\ resp = NoResponse
    /\ issued = NoIssued
    /\ diskWritable = TRUE
    /\ notes = NoNotes
    /\ fsAccess = {}
    /\ calls = {}
    /\ loginSucceeded = FALSE
    /\ client = ClosedEditor
    /\ inflight = <<>>

\* startServer(): loadData() and then app.listen
LoadData ==
    /\ pc = "start"
    /\ \E now \in Times : data' = loadData(data, file, now)
    /\ pc' = "running"
    /\ UNCHANGED <<file, resp, issued, diskWritable, notes, fsAccess, calls, loginSucceeded, client, inflight>>

-----------------------------------------------------------------------------
(* Requests *)

\* function validateRequiredFields(body, requiredFields): the missing fields
validateRequiredFields(body, requiredFields) ==
    SelectSeq(requiredFields,
              LAMBDA field : \/ field \notin DOMAIN body
                             \/ body[field] = EmptyString
                             \/ trim(body[field]) = EmptyString)

\* The 400 answer for a failed validation: `Missing required fields: ...`
ValidationError(missingFields) ==
    [ status |-> 400,
      json |-> createApiResponse(FALSE, NoBody,
                                 <<"Missing required fields">> \o missingFields) ]

NotFound(what) ==
    [ status |-> 404, json |-> createApiResponse(FALSE, NoBody, <<what>>) ]

Ok(body) == [ status |-> 200, json |-> createApiResponse(TRUE, body, <<>>) ]

\* array.findIndex(x => x.id === id): 0 stands for JavaScript's -1
findIndex(seq, id) ==
    IF \E i \in 1..Len(seq) : StrictEqNum(seq[i].id, id)
    THEN CHOOSE i \in 1..Len(seq) :
            /\ StrictEqNum(seq[i].id, id)
            /\ \A j \in 1..(i - 1) : ~StrictEqNum(seq[j].id, id)
    ELSE 0

\* splice as array.splice(index - 1, 1): the element before is removed.
spliceBefore(seq, index) ==
    SubSeq(seq, 1, index - 2) \o SubSeq(seq, index, Len(seq))

\* array.splice(index, 1)
splice(seq, index) ==
    SubSeq(seq, 1, index - 1) \o SubSeq(seq, index + 1, Len(seq))

\* categoryId ? parseInt(categoryId) : null
CategoryIdOf(body) ==
    IF "categoryId" \in DOMAIN body /\ Truthy(body.categoryId)
    THEN parseInt(body.categoryId)
    ELSE null

\* Request bodies of POST /api/links and PUT /api/links/:id
LinkBodies ==
    { [name |-> NAS, url |-> RouterUrl],
      [name |-> NAS, url |-> RouterUrl, categoryId |-> Num(0)],
      [name |-> Router, url |-> RouterUrl, categoryId |-> Num(1)],
      [name |-> PaddedRouter, url |-> RouterUrl, categoryId |-> NumStr(1)],
      [name |-> Router, url |-> RouterUrl, categoryId |-> Text],
      [name |-> Blank, url |-> RouterUrl, categoryId |-> Num(1)],
      [name |-> Router] }

\* Request bodies of PUT /api/links/:id
LinkUpdateBodies ==
    { [name |-> NAS, url |-> RouterUrl],
      [name |-> PaddedRouter, url |-> RouterUrl, categoryId |-> NumStr(1)],
      [name |-> Router, url |-> RouterUrl, categoryId |-> Text],
      [name |-> Blank, url |-> RouterUrl, categoryId |-> Num(1)],
      [url |-> RouterUrl] }

\* req.params.id of the link routes as the client sends it
LinkIdParams == {NumStr(i) : i \in 1..MaxId} \cup {Text}

\* req.params.id of the category routes as the client sends it
CategoryIdParams == {NumStr(i) : i \in 1..MaxCategoryId} \cup {NumStr(-1), Text}

\* Request bodies of POST /api/categories
CategoryBodies ==
    { [name |-> Tools], [name |-> PaddedTools], [name |-> Blank], [title |-> Tools] }

-----------------------------------------------------------------------------
(* Links *)

\* app.get('/api/links')
GetLinks ==
    /\ pc = "running"
    /\ resp' = Ok([links |-> data.links])
    /\ UNCHANGED <<data, file, pc, issued, diskWritable, notes, fsAccess, calls, loginSucceeded, client, inflight>>

\* const newLink = { id: data.nextId++, ... } of app.post('/api/links')
newLink(d, body, now) ==
    [ id |-> d.nextId,
      name |-> trim(body.name),
      url |-> trim(body.url),
      categoryId |-> CategoryIdOf(body),
      createdAt |-> now ]

\* pushLink with `id: data.nextId` in place of `id: data.nextId++`.
pushLinkNoIncrement(d, link) ==
    [d EXCEPT !.links = Append(@, link)]

\* pushLink writing back a list read before another handler's push: the
\* lost update of a handler that suspends between read and write.
pushLinkLostUpdate(d, link) ==
    [d EXCEPT !.nextId = @ + 1, !.links = <<link>>]

\* data.nextId++ and data.links.push(newLink)
pushLink(d, link) ==
    [d EXCEPT !.nextId = @ + 1, !.links = Append(@, link)]

\* CreateLink with data.nextId++ evaluated before the validation.
CreateLinkCountsFirst(body) ==
    /\ pc = "running"
    /\ data.nextId <= MaxId
    /\ LET missingFields == validateRequiredFields(body, <<"name", "url">>)
       IN  IF missingFields # <<>>
           THEN /\ resp' = ValidationError(missingFields)
                /\ data' = [data EXCEPT !.nextId = @ + 1]
                /\ UNCHANGED <<file, issued>>
           ELSE \E now \in Times :
                  LET link == newLink(data, body, now)
                  IN  /\ data' = pushLink(data, link)
                      /\ file' = saveData(data', file, diskWritable)
                      /\ resp' = Ok([link |-> link])
                      /\ issued' = [issued EXCEPT !.links = @ \cup {link.id}]
    /\ UNCHANGED <<pc, diskWritable, notes, fsAccess, calls, loginSucceeded, client, inflight>>

\* app.post('/api/links')
CreateLink(body) ==
    /\ pc = "running"
    /\ data.nextId <= MaxId
    /\ LET missingFields == validateRequiredFields(body, <<"name", "url">>)
       IN  IF missingFields # <<>>
           THEN /\ resp' = ValidationError(missingFields)
                /\ UNCHANGED <<data, file, issued>>
           ELSE \E now \in Times :
                  LET link == newLink(data, body, now)
                  IN  /\ data' = pushLink(data, link)
                      /\ file' = saveData(data', file, diskWritable)
                      /\ resp' = Ok([link |-> link])
                      /\ issued' = [issued EXCEPT !.links = @ \cup {link.id}]
    /\ UNCHANGED <<pc, diskWritable, notes, fsAccess, calls, loginSucceeded, client, inflight>>

\* updatedLink that leaves categoryId alone when the body omits it.
updatedLinkKeepsCategory(link, body, now) ==
    Merge(link, [ name |-> trim(body.name),
                  url |-> trim(body.url),
                  categoryId |-> IF "categoryId" \in DOMAIN body
                                 THEN CategoryIdOf(body) ELSE link.categoryId,
                  updatedAt |-> now ])

\* { ...data.links[linkIndex], name, url, categoryId, updatedAt } of
\* app.put('/api/links/:id')
updatedLink(link, body, now) ==
    Merge(link, [ name |-> trim(body.name),
                  url |-> trim(body.url),
                  categoryId |-> CategoryIdOf(body),
                  updatedAt |-> now ])

\* app.put('/api/links/:id')
UpdateLink(idParam, body) ==
    /\ pc = "running"
    /\ LET id == parseInt(idParam)
           missingFields == validateRequiredFields(body, <<"name", "url">>)
           linkIndex == findIndex(data.links, id)
       IN  IF missingFields # <<>>
           THEN /\ resp' = ValidationError(missingFields)
                /\ UNCHANGED <<data, file>>
           ELSE IF linkIndex = 0
           THEN /\ resp' = NotFound("Link not found")
                /\ UNCHANGED <<data, file>>
           ELSE \E now \in Times :
                  LET updated == updatedLink(data.links[linkIndex], body, now)
                  IN  /\ data' = [data EXCEPT !.links[linkIndex] = updated]
                      /\ file' = saveData(data', file, diskWritable)
                      /\ resp' = Ok([link |-> updated])
    /\ UNCHANGED <<pc, issued, diskWritable, notes, fsAccess, calls, loginSucceeded, client, inflight>>

\* app.delete('/api/links/:id')
DeleteLink(idParam) ==
    /\ pc = "running"
    /\ LET id == parseInt(idParam)
           linkIndex == findIndex(data.links, id)
       IN  IF linkIndex = 0
           THEN /\ resp' = NotFound("Link not found")
                /\ UNCHANGED <<data, file>>
           ELSE /\ data' = [data EXCEPT !.links = splice(@, linkIndex)]
                /\ file' = saveData(data', file, diskWritable)
                /\ resp' = Ok(NoBody)
    /\ UNCHANGED <<pc, issued, diskWritable, notes, fsAccess, calls, loginSucceeded, client, inflight>>

\* The link registry by itself, started on each of the persisted files
LinkNext ==
    \/ LoadData
    \/ GetLinks
    \/ \E body \in LinkBodies : CreateLink(body)
    \/ \E idParam \in LinkIdParams, body \in LinkUpdateBodies : UpdateLink(idParam, body)
    \/ \E idParam \in LinkIdParams : DeleteLink(idParam)

LinkSpec == Init /\ [][LinkNext]_vars

-----------------------------------------------------------------------------
(* Categories *)

\* (a.order || 0) as a number
OrderKey(cat) ==
    LET order == OrderOf(cat)
    IN  IF order.t \in {"number", "string"} THEN order.v ELSE 0

\* insertSorted that puts cat before the elements of equal key: a sort
\* that is not stable.
RECURSIVE insertSortedBeforeTies(_, _)
insertSortedBeforeTies(sorted, cat) ==
    IF sorted = <<>>
    THEN <<cat>>
    ELSE IF OrderKey(sorted[Len(sorted)]) < OrderKey(cat)
    THEN Append(sorted, cat)
    ELSE Append(insertSortedBeforeTies(SubSeq(sorted, 1, Len(sorted) - 1), cat),
                sorted[Len(sorted)])

\* Insert cat behind every element whose key is not greater: the stable
\* order Array.prototype.sort produces.
RECURSIVE insertSorted(_, _)
insertSorted(sorted, cat) ==
    IF sorted = <<>>
    THEN <<cat>>
    ELSE IF OrderKey(sorted[Len(sorted)]) <= OrderKey(cat)
    THEN Append(sorted, cat)
    ELSE Append(insertSorted(SubSeq(sorted, 1, Len(sorted) - 1), cat),
                sorted[Len(sorted)])

\* [...categories].sort((a, b) => (a.order || 0) - (b.order || 0))
RECURSIVE sortByOrder(_)
sortByOrder(categories) ==
    IF categories = <<>>
    THEN <<>>
    ELSE insertSorted(sortByOrder(SubSeq(categories, 1, Len(categories) - 1)),
                      categories[Len(categories)])

\* app.get('/api/categories')
GetCategories ==
    /\ pc = "running"
    /\ resp' = Ok([categories |-> sortByOrder(data.categories)])
    /\ UNCHANGED <<data, file, pc, issued, diskWritable, notes, fsAccess, calls, loginSucceeded, client, inflight>>

\* newCategory with `order: data.categories.length - 1`.
newCategoryOrderOffByOne(d, body, now) ==
    [ id |-> d.nextCategoryId,
      name |-> trim(body.name),
      private |-> FALSE,
      order |-> Num(Len(d.categories) - 1),
      createdAt |-> now ]

\* newCategory with `name: name` in place of `name: name.trim()`.
newCategoryUntrimmed(d, body, now) ==
    [ id |-> d.nextCategoryId,
      name |-> body.name,
      private |-> FALSE,
      order |-> Num(Len(d.categories)),
      createdAt |-> now ]

\* const newCategory = { id: data.nextCategoryId++, ... } of
\* app.post('/api/categories')
newCategory(d, body, now) ==
    [ id |-> d.nextCategoryId,
      name |-> trim(body.name),
      private |-> FALSE,
      order |-> Num(Len(d.categories)),
      createdAt |-> now ]

\* pushCategory with `id: data.nextCategoryId` in place of
\* `id: data.nextCategoryId++`.
pushCategoryNoIncrement(d, category) ==
    [d EXCEPT !.categories = Append(@, category)]

\* data.nextCategoryId++ and data.categories.push(newCategory)
pushCategory(d, category) ==
    [d EXCEPT !.nextCategoryId = @ + 1, !.categories = Append(@, category)]

\* app.post('/api/categories')
CreateCategory(body) ==
    /\ pc = "running"
    /\ data.nextCategoryId <= MaxCategoryId
    /\ LET missingFields == validateRequiredFields(body, <<"name">>)
       IN  IF missingFields # <<>>
           THEN /\ resp' = ValidationError(missingFields)
                /\ UNCHANGED <<data, file, issued>>
           ELSE \E now \in Times :
                  LET category == newCategory(data, body, now)
                  IN  /\ data' = pushCategory(data, category)
                      /\ file' = saveData(data', file, diskWritable)
                      /\ resp' = Ok([category |-> category])
                      /\ issued' = [issued EXCEPT !.categories = @ \cup {category.id}]
    /\ UNCHANGED <<pc, diskWritable, notes, fsAccess, calls, loginSucceeded, client, inflight>>

\* orphanLinks as a cascading delete: the referencing links are removed.
orphanLinksCascade(links, id) ==
    SelectSeq(links, LAMBDA l : ~StrictEq(l.categoryId, id))

\* data.links.forEach(link => { if (link.categoryId === id) link.categoryId = null })
orphanLinks(links, id) ==
    [i \in 1..Len(links) |->
        IF StrictEq(links[i].categoryId, id)
        THEN [links[i] EXCEPT !.categoryId = null]
        ELSE links[i]]

\* app.delete('/api/categories/:id')
DeleteCategory(idParam) ==
    /\ pc = "running"
    /\ LET id == parseInt(idParam)
           categoryIndex == findIndex(data.categories, id)
       IN  IF categoryIndex = 0
           THEN /\ resp' = NotFound("Category not found")
                /\ UNCHANGED <<data, file>>
           ELSE IF IsDefault(data.categories[categoryIndex])
           THEN /\ resp' = [ status |-> 400,
                             json |-> createApiResponse(FALSE, NoBody,
                                        <<"Cannot delete default system category">>) ]
                /\ UNCHANGED <<data, file>>
           ELSE /\ data' = [data EXCEPT !.links = orphanLinks(@, id),
                                        !.categories = splice(@, categoryIndex)]
                /\ file' = saveData(data', file, diskWritable)
                /\ resp' = Ok(NoBody)
    /\ UNCHANGED <<pc, issued, diskWritable, notes, fsAccess, calls, loginSucceeded, client, inflight>>

\* function handleApiError(res, error, operation)
ServerError(operation) ==
    [ status |-> 500,
      json |-> createApiResponse(FALSE, NoBody, <<"Server error during", operation>>) ]

\* The position of the first null in a categoryOrder array, 0 if none:
\* destructuring ({ id, order }) throws a TypeError there.
FirstNull(items) ==
    IF \E i \in 1..Len(items) : items[i] = null
    THEN CHOOSE i \in 1..Len(items) :
            /\ items[i] = null
            /\ \A j \in 1..(i - 1) : items[j] # null
    ELSE 0

\* categoryOrder.forEach(({ id, order }) => { find category; category.order = order })
RECURSIVE applyOrder(_, _)
applyOrder(categories, items) ==
    IF items = <<>>
    THEN categories
    ELSE LET item == items[Len(items)]
             before == applyOrder(categories, SubSeq(items, 1, Len(items) - 1))
             index == findIndex(before, item.id)
         IN  IF index = 0
             THEN before
             ELSE [before EXCEPT ![index] = Merge(@, [order |-> item.order])]

\* Request bodies of POST /api/categories/reorder
ReorderBodies ==
    { [categoryOrder |-> List(<< [id |-> Num(1), order |-> Num(-2)],
                                 [id |-> Num(-1), order |-> Num(0)] >>)],
      [categoryOrder |-> List(<< [id |-> Num(-1), order |-> Num(-1)],
                                 [id |-> Num(1), order |-> Num(1)] >>)],
      [categoryOrder |-> List(<< [id |-> Num(7), order |-> Num(0)],
                                 [id |-> Num(1), order |-> Num(-1)] >>)],
      [categoryOrder |-> List(<< [id |-> Num(1), order |-> Num(-2)], null >>)],
      [categoryOrder |-> List(<< >>)],
      [categoryOrder |-> List(<< null >>)],
      [categoryOrder |-> Str(Tools)],
      [order |-> List(<< [id |-> Num(1), order |-> Num(0)] >>)] }

\* app.post('/api/categories/reorder')
ReorderCategories(body) ==
    /\ pc = "running"
    /\ LET strings == [k \in DOMAIN body |-> toString(body[k])]
           missingFields == validateRequiredFields(strings, <<"categoryOrder">>)
       IN  IF missingFields # <<>>
           THEN /\ resp' = ValidationError(missingFields)
                /\ UNCHANGED <<data, file>>
           ELSE IF body.categoryOrder.t # "array"
           THEN /\ resp' = [ status |-> 400,
                             json |-> createApiResponse(FALSE, NoBody,
                                        <<"Category order must be an array">>) ]
                /\ UNCHANGED <<data, file>>
           ELSE LET items == body.categoryOrder.items
                    thrown == FirstNull(items)
                IN  IF thrown # 0
                    THEN /\ data' = [data EXCEPT !.categories =
                                        applyOrder(@, SubSeq(items, 1, thrown - 1))]
                         /\ file' = file
                         /\ resp' = ServerError("reorder categories")
                    ELSE /\ data' = [data EXCEPT !.categories =
                                        sortByOrder(applyOrder(@, items))]
                         /\ file' = saveData(data', file, diskWritable)
                         /\ resp' = Ok(NoBody)
    /\ UNCHANGED <<pc, issued, diskWritable, notes, fsAccess, calls, loginSucceeded, client, inflight>>

\* Request bodies of PATCH /api/categories/:id/privacy
PrivacyBodies == { [private |-> TRUE], [private |-> FALSE], [name |-> Tools] }

\* app.patch('/api/categories/:id/privacy'): Boolean(undefined) is false.
SetPrivacy(idParam, body) ==
    /\ pc = "running"
    /\ LET id == parseInt(idParam)
           categoryIndex == findIndex(data.categories, id)
       IN  IF categoryIndex = 0
           THEN /\ resp' = NotFound("Category not found")
                /\ UNCHANGED <<data, file>>
           ELSE /\ data' = [data EXCEPT !.categories[categoryIndex].private =
                                IF "private" \in DOMAIN body THEN body.private ELSE FALSE]
                /\ file' = saveData(data', file, diskWritable)
                /\ resp' = Ok([category |-> data'.categories[categoryIndex]])
    /\ UNCHANGED <<pc, issued, diskWritable, notes, fsAccess, calls, loginSucceeded, client, inflight>>

\* The category registry by itself
CategoryInit == Init /\ file = AbsentFile

CategoryNext ==
    \/ LoadData
    \/ GetCategories
    \/ \E body \in CategoryBodies : CreateCategory(body)
    \/ \E idParam \in CategoryIdParams : DeleteCategory(idParam)
    \/ \E idParam \in CategoryIdParams, body \in PrivacyBodies : SetPrivacy(idParam, body)
    \/ \E body \in ReorderBodies : ReorderCategories(body)

CategorySpec == CategoryInit /\ [][CategoryNext]_vars

-----------------------------------------------------------------------------
(* Configuration *)

\* req.body.x || fallback for a string x
OrElse(body, key, fallback) ==
    IF key \in DOMAIN body /\ body[key] # EmptyString THEN body[key] ELSE fallback

\* Request bodies of POST /api/homepage-message
MessageBodies == { [message |-> PaddedTools], [message |-> Blank], [text |-> Tools] }

\* app.post('/api/homepage-message')
SetHomepageMessage(body) ==
    /\ pc = "running"
    /\ LET missingFields == validateRequiredFields(body, <<"message">>)
       IN  IF missingFields # <<>>
           THEN /\ resp' = ValidationError(missingFields)
                /\ UNCHANGED <<data, file>>
           ELSE /\ data' = [data EXCEPT !.homepageMessage = trim(body.message)]
                /\ file' = saveData(data', file, diskWritable)
                /\ resp' = Ok(NoBody)
    /\ UNCHANGED <<pc, issued, diskWritable, notes, fsAccess, calls, loginSucceeded, client, inflight>>

\* Request bodies of POST /api/site-title
TitleBodies == { [title |-> PaddedTools], [title |-> EmptyString], [name |-> Tools] }

\* SetSiteTitle with a saveData() that lets the error of writeFileSync
\* escape into the handler.
SetSiteTitleSaveThrows(body) ==
    /\ pc = "running"
    /\ LET missingFields == validateRequiredFields(body, <<"title">>)
       IN  IF missingFields # <<>>
           THEN /\ resp' = ValidationError(missingFields)
                /\ UNCHANGED <<data, file>>
           ELSE /\ data' = [data EXCEPT !.siteTitle = trim(body.title)]
                /\ file' = saveData(data', file, diskWritable)
                /\ resp' = IF diskWritable THEN Ok(NoBody) ELSE ServerError("save")
    /\ UNCHANGED <<pc, issued, diskWritable, notes, fsAccess, calls, loginSucceeded, client, inflight>>

\* app.post('/api/site-title')
SetSiteTitle(body) ==
    /\ pc = "running"
    /\ LET missingFields == validateRequiredFields(body, <<"title">>)
       IN  IF missingFields # <<>>
           THEN /\ resp' = ValidationError(missingFields)
                /\ UNCHANGED <<data, file>>
           ELSE /\ data' = [data EXCEPT !.siteTitle = trim(body.title)]
                /\ file' = saveData(data', file, diskWritable)
                /\ resp' = Ok(NoBody)
    /\ UNCHANGED <<pc, issued, diskWritable, notes, fsAccess, calls, loginSucceeded, client, inflight>>

\* app.get('/api/chat-config')
GetChatConfig ==
    /\ pc = "running"
    /\ resp' = Ok([config |-> data.chatConfig])
    /\ UNCHANGED <<data, file, pc, issued, diskWritable, notes, fsAccess, calls, loginSucceeded, client, inflight>>

\* Request bodies of POST /api/chat-config
ChatBodies ==
    { [provider |-> Flowise, apiUrl |-> RouterUrl, chatflowId |-> Tools],
      [provider |-> Ollama, ollamaBaseUrl |-> OllamaUrl, ollamaModel |-> Media],
      [provider |-> None],
      [provider |-> OpenAI],
      [provider |-> EmptyString, ollamaModel |-> Media] }

\* data.chatConfig = { provider: provider || 'flowise', ... } of
\* app.post('/api/chat-config')
chatConfigOf(body) ==
    [ provider |-> OrElse(body, "provider", Flowise),
      apiUrl |-> OrElse(body, "apiUrl", EmptyString),
      chatflowId |-> OrElse(body, "chatflowId", EmptyString),
      ollamaBaseUrl |-> OrElse(body, "ollamaBaseUrl", EmptyString),
      ollamaModel |-> OrElse(body, "ollamaModel", EmptyString) ]

\* app.post('/api/chat-config')
SetChatConfig(body) ==
    /\ pc = "running"
    /\ data' = [data EXCEPT !.chatConfig = chatConfigOf(body)]
    /\ file' = saveData(data', file, diskWritable)
    /\ resp' = Ok(NoBody)
    /\ UNCHANGED <<pc, issued, diskWritable, notes, fsAccess, calls, loginSucceeded, client, inflight>>

\* Request bodies of POST /api/filter-config
FilterBodies ==
    { [enabled |-> TRUE, keyword |-> Tools], [enabled |-> FALSE], [keyword |-> EmptyString] }

\* app.post('/api/filter-config')
SetFilterConfig(body) ==
    /\ pc = "running"
    /\ data' = [data EXCEPT !.filterConfig =
                    [ enabled |-> "enabled" \in DOMAIN body /\ body.enabled,
                      keyword |-> OrElse(body, "keyword", DefaultKeyword) ]]
    /\ file' = saveData(data', file, diskWritable)
    /\ resp' = Ok(NoBody)
    /\ UNCHANGED <<pc, issued, diskWritable, notes, fsAccess, calls, loginSucceeded, client, inflight>>

\* app.get('/api/color-config')
GetColorConfig ==
    /\ pc = "running"
    /\ resp' = Ok([config |-> data.colorConfig])
    /\ UNCHANGED <<data, file, pc, issued, diskWritable, notes, fsAccess, calls, loginSucceeded, client, inflight>>

HexDigits ==
    { "0", "1", "2", "3", "4", "5", "6", "7", "8", "9",
      "A", "B", "C", "D", "E", "F", "a", "b", "c", "d", "e", "f" }

\* /^#[0-9A-F]{6}$/i.test(s) for a string s
IsHexColor(s) ==
    /\ Len(s) = 7
    /\ s[1] = "#"
    /\ \A i \in 2..7 : s[i] \in HexDigits

\* The strings sent as primaryColor
ColorStrings ==
    { HexUpper, HexLower, Bad, FiveDigits, SevenDigits, NoHash, NotHex, Blank }

\* Request bodies of POST /api/color-config: primaryColor is a JSON
\* string, a JSON array holding one string, or missing.
ColorBodies ==
    { [primaryColor |-> Str(s)] : s \in ColorStrings }
        \cup { [primaryColor |-> Arr(HexUpper)], [primaryColor |-> Arr(Bad)] }
        \cup { [color |-> Str(HexUpper)] }

\* app.post('/api/color-config'): validateRequiredFields reads
\* body[field].toString(), RegExp.prototype.test reads ToString(primaryColor),
\* and the value itself is stored.
SetColorConfig(body) ==
    /\ pc = "running"
    /\ LET strings == [k \in DOMAIN body |-> toString(body[k])]
           missingFields == validateRequiredFields(strings, <<"primaryColor">>)
       IN  IF missingFields # <<>>
           THEN /\ resp' = ValidationError(missingFields)
                /\ UNCHANGED <<data, file>>
           ELSE IF ~IsHexColor(toString(body.primaryColor))
           THEN /\ resp' = [ status |-> 400,
                             json |-> createApiResponse(FALSE, NoBody,
                                        <<"Valid hex color code is required (e.g., #330099)">>) ]
                /\ UNCHANGED <<data, file>>
           ELSE /\ data' = [data EXCEPT !.colorConfig = [primaryColor |-> body.primaryColor]]
                /\ file' = saveData(data', file, diskWritable)
                /\ resp' = Ok(NoBody)
    /\ UNCHANGED <<pc, issued, diskWritable, notes, fsAccess, calls, loginSucceeded, client, inflight>>

ConfigNext ==
    \/ LoadData
    \/ \E body \in MessageBodies : SetHomepageMessage(body)
    \/ \E body \in TitleBodies : SetSiteTitle(body)
    \/ GetChatConfig
    \/ \E body \in ChatBodies : SetChatConfig(body)
    \/ \E body \in FilterBodies : SetFilterConfig(body)
    \/ GetColorConfig
    \/ \E body \in ColorBodies : SetColorConfig(body)

\* The configuration registry: the startup load and the configuration
\* handlers.
ConfigSpec == Init /\ [][ConfigNext]_vars

\* app.get('/api/homepage-message')
GetHomepageMessage ==
    /\ pc = "running"
    /\ resp' = Ok([message |-> data.homepageMessage])
    /\ UNCHANGED <<data, file, pc, issued, diskWritable, notes, fsAccess, calls, loginSucceeded, client, inflight>>

\* app.get('/api/site-title')
GetSiteTitle ==
    /\ pc = "running"
    /\ resp' = Ok([title |-> data.siteTitle])
    /\ UNCHANGED <<data, file, pc, issued, diskWritable, notes, fsAccess, calls, loginSucceeded, client, inflight>>

\* app.get('/api/filter-config')
GetFilterConfig ==
    /\ pc = "running"
    /\ resp' = Ok([config |-> data.filterConfig])
    /\ UNCHANGED <<data, file, pc, issued, diskWritable, notes, fsAccess, calls, loginSucceeded, client, inflight>>

-----------------------------------------------------------------------------
(* Project notes: the files of PROJECT_DIR = data/projects *)

\* name.endsWith(suffix)
endsWith(s, suffix) ==
    /\ Len(s) >= Len(suffix)
    /\ SubSeq(s, Len(s) - Len(suffix) + 1, Len(s)) = suffix

RECURSIVE stripTrailingSlashes(_)
stripTrailingSlashes(p) ==
    IF p # <<>> /\ p[Len(p)] = "/"
    THEN stripTrailingSlashes(SubSeq(p, 1, Len(p) - 1))
    ELSE p

RECURSIVE afterLastSlash(_)
afterLastSlash(p) ==
    IF p = <<>> \/ p[Len(p)] = "/"
    THEN <<>>
    ELSE Append(afterLastSlash(SubSeq(p, 1, Len(p) - 1)), p[Len(p)])

\* path.basename(p) of a POSIX path: trailing separators are dropped, then
\* what follows the last separator is returned.
basename(p) == afterLastSlash(stripTrailingSlashes(p))

\* path.join(PROJECT_DIR, name) for a name without separator, normalized:
\* '..' is data/, '.' and '' are data/projects itself, every other name is
\* a direct child of data/projects.
joinProjectDir(name) ==
    IF name = DotDot THEN [where |-> "parent", name |-> <<>>]
    ELSE IF name \in {Dot, EmptyString} THEN [where |-> "directory", name |-> <<>>]
    ELSE [where |-> "child", name |-> name]

\* fs.existsSync(filePath): the two directories exist.
existsSync(filePath) ==
    filePath.where # "child" \/ filePath.name \in DOMAIN notes

\* app.get('/api/projects'): readdirSync does not promise an order, the
\* answer is modelled as the set of names.
ListProjects ==
    /\ pc = "running"
    /\ resp' = Ok([files |-> {n \in DOMAIN notes : endsWith(n, DotMd)}])
    /\ fsAccess' = {}
    /\ UNCHANGED <<data, file, pc, issued, diskWritable, notes, calls, loginSucceeded, client, inflight>>

\* req.params.name of the notes routes, percent-decoded
NoteNameParams == {PlanMd, Plan, UpPlanMd, PlanMdSlash, DotDot, Dot}

\* app.get('/api/projects/:name'): readFileSync of a directory throws
\* EISDIR.
ReadProject(nameParam) ==
    /\ pc = "running"
    /\ LET name == basename(nameParam)
           filePath == joinProjectDir(name)
       IN  /\ fsAccess' = {filePath}
           /\ resp' = IF ~existsSync(filePath) THEN NotFound("File not found")
                      ELSE IF filePath.where # "child" THEN ServerError("read project file")
                      ELSE Ok([content |-> notes[name]])
    /\ UNCHANGED <<data, file, pc, issued, diskWritable, notes, calls, loginSucceeded, client, inflight>>

\* Request bodies of POST /api/projects
ProjectBodies ==
    { [name |-> n, content |-> c] :
        n \in {Plan, PlanMd, UpPlanMd, Media, DotDot, Blank}, c \in {Hi, Bye, EmptyString, Blank} }
        \cup { [name |-> Plan], [content |-> Hi] }

\* name = path.basename(name); if (!name.endsWith('.md')) name += '.md'
projectFileName(name) ==
    IF endsWith(basename(name), DotMd) THEN basename(name) ELSE basename(name) \o DotMd

\* fs.writeFileSync(filePath, content, 'utf8')
writeFileSync(dir, name, content) ==
    [n \in DOMAIN dir \cup {name} |-> IF n = name THEN content ELSE dir[n]]

\* app.post('/api/projects')
SaveProject(body) ==
    /\ pc = "running"
    /\ LET missingFields == validateRequiredFields(body, <<"name", "content">>)
       IN  IF missingFields # <<>>
           THEN /\ resp' = ValidationError(missingFields)
                /\ fsAccess' = {}
                /\ UNCHANGED notes
           ELSE LET name == projectFileName(body.name)
                    filePath == joinProjectDir(name)
                IN  /\ fsAccess' = {filePath}
                    /\ IF filePath.where = "child"
                       THEN /\ notes' = writeFileSync(notes, name, body.content)
                            /\ resp' = Ok(NoBody)
                       ELSE /\ resp' = ServerError("save project file")
                            /\ UNCHANGED notes
    /\ UNCHANGED <<data, file, pc, issued, diskWritable, calls, loginSucceeded, client, inflight>>

\* fs.unlinkSync(filePath)
unlinkSync(dir, name) == [n \in DOMAIN dir \ {name} |-> dir[n]]

\* app.delete('/api/projects/:name'): unlinkSync of a directory throws.
DeleteProject(nameParam) ==
    /\ pc = "running"
    /\ LET name == basename(nameParam)
           filePath == joinProjectDir(name)
       IN  /\ fsAccess' = {filePath}
           /\ IF ~existsSync(filePath)
              THEN /\ resp' = NotFound("File not found")
                   /\ UNCHANGED notes
              ELSE IF filePath.where # "child"
              THEN /\ resp' = ServerError("delete project file")
                   /\ UNCHANGED notes
              ELSE /\ notes' = unlinkSync(notes, name)
                   /\ resp' = Ok(NoBody)
    /\ UNCHANGED <<data, file, pc, issued, diskWritable, calls, loginSucceeded, client, inflight>>

NotesInit == Init /\ file = AbsentFile

NotesNext ==
    \/ LoadData
    \/ ListProjects
    \/ \E nameParam \in NoteNameParams : ReadProject(nameParam)
    \/ \E body \in ProjectBodies : SaveProject(body)
    \/ \E nameParam \in NoteNameParams : DeleteProject(nameParam)

NotesSpec == NotesInit /\ [][NotesNext]_vars

-----------------------------------------------------------------------------
(* Outbound calls: the status check and the Ollama proxies.  A handler
   that awaits an outbound call is a record in `calls` until the call
   settles; the upstream server answers, fails, or stays silent. *)

\* makeHttpRequest(url, { method: 'HEAD' }, 5000): req.setTimeout(timeout)
StatusTimeout == 5000

\* fetch(url) and fetch(url, { method, headers, body }): no signal, no
\* timer is set by the handler
NoTimeout == 0

\* The smallest number no call in flight carries.
FreeSlot == CHOOSE n \in 1..MaxCalls : \A c \in calls : c.slot # n

\* Request bodies of POST /api/status/:id
StatusBodies == { [url |-> RouterUrl], [url |-> Blank], [id |-> NumStr(1)] }

\* app.post('/api/status/:id') up to `await checkWebsiteStatus(req.body.url)`
CheckStatus(body) ==
    /\ pc = "running"
    /\ Cardinality(calls) < MaxCalls
    /\ LET missingFields == validateRequiredFields(body, <<"url">>)
       IN  IF missingFields # <<>>
           THEN /\ resp' = ValidationError(missingFields)
                /\ UNCHANGED calls
           ELSE /\ calls' = calls \cup {[slot |-> FreeSlot, kind |-> "status", timeout |-> StatusTimeout]}
                /\ UNCHANGED resp
    /\ UNCHANGED <<data, file, pc, issued, diskWritable, notes, fsAccess, loginSucceeded, client, inflight>>

\* req.query.baseUrl of GET /api/ollama-models
BaseUrlQueries == {OllamaUrl, EmptyString}

\* app.get('/api/ollama-models') up to `await fetch(...)`
OllamaModels(explicitBase) ==
    /\ pc = "running"
    /\ Cardinality(calls) < MaxCalls
    /\ LET baseUrl == IF explicitBase # EmptyString
                      THEN explicitBase
                      ELSE data.chatConfig.ollamaBaseUrl
       IN  IF baseUrl = EmptyString
           THEN /\ resp' = [ status |-> 400,
                             json |-> createApiResponse(FALSE, NoBody,
                                        <<"Ollama base URL not configured">>) ]
                /\ UNCHANGED calls
           ELSE /\ calls' = calls \cup {[slot |-> FreeSlot, kind |-> "models", timeout |-> NoTimeout]}
                /\ UNCHANGED resp
    /\ UNCHANGED <<data, file, pc, issued, diskWritable, notes, fsAccess, loginSucceeded, client, inflight>>

\* Request bodies of POST /api/ollama-chat
ChatMessageBodies == { [message |-> Hi], [message |-> Blank], [text |-> Hi] }

\* app.post('/api/ollama-chat') up to `await fetch(...)`
OllamaChat(body) ==
    /\ pc = "running"
    /\ Cardinality(calls) < MaxCalls
    /\ IF validateRequiredFields(body, <<"message">>) # <<>>
       THEN /\ resp' = [ status |-> 400,
                         json |-> createApiResponse(FALSE, NoBody, <<"Message is required">>) ]
            /\ UNCHANGED calls
       ELSE IF data.chatConfig.ollamaBaseUrl = EmptyString \/ data.chatConfig.ollamaModel = EmptyString
       THEN /\ resp' = [ status |-> 400,
                         json |-> createApiResponse(FALSE, NoBody, <<"Ollama not configured">>) ]
            /\ UNCHANGED calls
       ELSE /\ calls' = calls \cup {[slot |-> FreeSlot, kind |-> "chat", timeout |-> NoTimeout]}
            /\ UNCHANGED resp
    /\ UNCHANGED <<data, file, pc, issued, diskWritable, notes, fsAccess, loginSucceeded, client, inflight>>

\* What the upstream server sends when it answers
UpstreamAnswers == {"success", "not found", "invalid"}

\* The upstream server answers call c: the awaited promise resolves and
\* the handler answers its request.
UpstreamResponds(c, answer) ==
    /\ c \in calls
    /\ calls' = calls \ {c}
    /\ resp' = CASE c.kind = "status" ->
                       \* response.statusCode >= 200 && response.statusCode < 400
                       Ok([online |-> answer = "success"])
                  [] c.kind = "models" ->
                       IF answer = "success"
                       THEN [status |-> 200, json |-> [models |-> <<Media>>]]
                       ELSE [ status |-> 500,
                              json |-> createApiResponse(FALSE, NoBody,
                                         <<"Invalid response from Ollama">>) ]
                  [] c.kind = "chat" ->
                       [status |-> 200, json |-> [upstream |-> answer]]
    /\ UNCHANGED <<data, file, pc, issued, diskWritable, notes, fsAccess, loginSucceeded, client, inflight>>

\* The connection of call c fails (refused, reset): the promise rejects.
UpstreamFails(c) ==
    /\ c \in calls
    /\ calls' = calls \ {c}
    /\ resp' = CASE c.kind = "status" -> Ok([online |-> FALSE])
                  [] c.kind = "models" ->
                       [ status |-> 500,
                         json |-> createApiResponse(FALSE, NoBody,
                                    <<"Failed to fetch Ollama models">>) ]
                  [] c.kind = "chat" ->
                       [ status |-> 500,
                         json |-> createApiResponse(FALSE, NoBody,
                                    <<"Failed to connect to Ollama">>) ]
    /\ UNCHANGED <<data, file, pc, issued, diskWritable, notes, fsAccess, loginSucceeded, client, inflight>>

\* req.on('timeout', ...) of makeHttpRequest: the timer the handler set
\* for call c expires, the request is destroyed and the promise rejects
\* with 'Request timeout'; checkWebsiteStatus returns false.
TimeoutFires(c) ==
    /\ c \in calls
    /\ c.timeout > 0
    /\ calls' = calls \ {c}
    /\ resp' = Ok([online |-> FALSE])
    /\ UNCHANGED <<data, file, pc, issued, diskWritable, notes, fsAccess, loginSucceeded, client, inflight>>

\* The calls that can be in flight
Calls ==
    { [slot |-> n, kind |-> k, timeout |-> IF k = "status" THEN StatusTimeout ELSE NoTimeout] :
        n \in 1..MaxCalls, k \in {"status", "models", "chat"} }

ProxyChatBodies ==
    { [provider |-> Ollama, ollamaBaseUrl |-> OllamaUrl, ollamaModel |-> Media],
      [provider |-> None] }

ProxyInit == Init /\ file = AbsentFile

ProxyNext ==
    \/ LoadData
    \/ \E body \in ProxyChatBodies : SetChatConfig(body)
    \/ \E body \in StatusBodies : CheckStatus(body)
    \/ \E explicitBase \in BaseUrlQueries : OllamaModels(explicitBase)
    \/ \E body \in ChatMessageBodies : OllamaChat(body)
    \/ \E c \in Calls, answer \in UpstreamAnswers : UpstreamResponds(c, answer)
    \/ \E c \in Calls : UpstreamFails(c)
    \/ \E c \in Calls : TimeoutFires(c)

ProxySpec == ProxyInit /\ [][ProxyNext]_vars

-----------------------------------------------------------------------------
(* Admin login, and requests that change the settings *)

\* Request bodies of POST /api/admin/login
LoginBodies ==
    { [password |-> DefaultAdminPassword], [password |-> Bad], [password |-> Blank],
      [user |-> DefaultAdminPassword] }

\* app.post('/api/admin/login'): bcrypt.compare(req.body.password,
\* ADMIN_PASSWORD_HASH) with the default hash; the answer is all the
\* server does, it keeps no session and issues no token.
Login(body) ==
    /\ pc = "running"
    /\ LET missingFields == validateRequiredFields(body, <<"password">>)
       IN  IF missingFields # <<>>
           THEN /\ resp' = ValidationError(missingFields)
                /\ UNCHANGED loginSucceeded
           ELSE LET isValid == body.password = DefaultAdminPassword
                IN  /\ resp' = [status |-> 200, json |-> [success |-> isValid]]
                    /\ loginSucceeded' = (loginSucceeded \/ isValid)
    /\ UNCHANGED <<data, file, pc, issued, diskWritable, notes, fsAccess, calls, client, inflight>>

AuthInit == Init /\ file = AbsentFile

AuthNext ==
    \/ LoadData
    \/ \E body \in LoginBodies : Login(body)
    \/ CreateLink([name |-> Router, url |-> RouterUrl])
    \/ \E idParam \in LinkIdParams : DeleteLink(idParam)
    \/ CreateCategory([name |-> Tools])
    \/ SetSiteTitle([title |-> Tools])
    \/ SetColorConfig([primaryColor |-> Str(HexUpper)])
    \/ SetFilterConfig([enabled |-> TRUE, keyword |-> Tools])
    \/ SetChatConfig([provider |-> None])
    \/ SaveProject([name |-> Plan, content |-> Hi])

AuthSpec == AuthInit /\ [][AuthNext]_vars

-----------------------------------------------------------------------------
(* A start on a persisted file that cannot be used, and the read-only
   requests that follow *)

LoadInit ==
    /\ data = DefaultData
    /\ file \in UnusableFiles
    /\ pc = "start"
    /\ resp = NoResponse
    /\ issued = NoIssued
    /\ diskWritable = TRUE
    /\ notes = NoNotes
    /\ fsAccess = {}
    /\ calls = {}
    /\ loginSucceeded = FALSE
    /\ client = ClosedEditor
    /\ inflight = <<>>

LoadNext ==
    \/ LoadData
    \/ GetLinks
    \/ GetHomepageMessage
    \/ GetSiteTitle
    \/ GetChatConfig
    \/ GetFilterConfig
    \/ GetColorConfig

LoadSpec == LoadInit /\ [][LoadNext]_vars

-----------------------------------------------------------------------------
(* The handlers that validate their request, each with one request that
   passes and the requests that do not *)

ValidatedLinkBodies ==
    { [name |-> NAS, url |-> RouterUrl],
      [name |-> Blank, url |-> RouterUrl, categoryId |-> Num(1)],
      [name |-> Router],
      [url |-> RouterUrl] }

ValidatedReorderBodies ==
    { [categoryOrder |-> List(<< [id |-> Num(1), order |-> Num(-2)],
                                 [id |-> Num(-1), order |-> Num(0)] >>)],
      [categoryOrder |-> List(<< >>)],
      [categoryOrder |-> List(<< null >>)],
      [categoryOrder |-> Str(Tools)],
      [order |-> List(<< [id |-> Num(1), order |-> Num(0)] >>)] }

ValidatedColorBodies ==
    { [primaryColor |-> Str(HexUpper)],
      [primaryColor |-> Str(Bad)],
      [primaryColor |-> Str(NotHex)],
      [primaryColor |-> Str(Blank)],
      [primaryColor |-> Arr(Bad)],
      [color |-> Str(HexUpper)] }

ValidatedProjectBodies ==
    { [name |-> Plan, content |-> Hi],
      [name |-> Plan, content |-> EmptyString],
      [name |-> Blank, content |-> Hi],
      [name |-> Plan] }

\* A first start: no persisted file.
ValidationInit == Init /\ file = AbsentFile

ValidationNext ==
    \/ LoadData
    \/ \E body \in ValidatedLinkBodies : CreateLink(body)
    \/ \E idParam \in LinkIdParams, body \in ValidatedLinkBodies : UpdateLink(idParam, body)
    \/ \E body \in CategoryBodies : CreateCategory(body)
    \/ DeleteCategory(NumStr(-1))
    \/ \E body \in ValidatedReorderBodies : ReorderCategories(body)
    \/ \E body \in MessageBodies : SetHomepageMessage(body)
    \/ \E body \in TitleBodies : SetSiteTitle(body)
    \/ \E body \in ValidatedColorBodies : SetColorConfig(body)
    \/ \E body \in ValidatedProjectBodies : SaveProject(body)

ValidationSpec == ValidationInit /\ [][ValidationNext]_vars

-----------------------------------------------------------------------------
(* Mutating requests while the disk fails and recovers *)

\* fs.writeFileSync(DATA_FILE, ...) starts to throw (disk full, read-only
\* file system) and stops throwing again.
DiskFails ==
    /\ diskWritable
    /\ diskWritable' = FALSE
    /\ UNCHANGED <<data, file, pc, resp, issued, notes, fsAccess, calls, loginSucceeded, client, inflight>>

DiskRecovers ==
    /\ ~diskWritable
    /\ diskWritable' = TRUE
    /\ UNCHANGED <<data, file, pc, resp, issued, notes, fsAccess, calls, loginSucceeded, client, inflight>>

DiskLinkBodies ==
    { [name |-> Router, url |-> RouterUrl, categoryId |-> Num(1)],
      [name |-> Router] }

DiskInit == Init /\ file = AbsentFile

DiskNext ==
    \/ LoadData
    \/ DiskFails
    \/ DiskRecovers
    \/ \E body \in DiskLinkBodies : CreateLink(body)
    \/ \E idParam \in LinkIdParams : DeleteLink(idParam)
    \/ \E body \in CategoryBodies : CreateCategory(body)
    \/ \E body \in TitleBodies : SetSiteTitle(body)

DiskSpec == DiskInit /\ [][DiskNext]_vars

-----------------------------------------------------------------------------
(* The notes editor of script.js: title and text, the autosave timer, the
   save and delete requests it sends, and the server answering them.  Time
   advances in ticks of one second. *)

\* setTimeout(..., 2000) of queueAutosave, in ticks
AutosaveTicks == 2

\* A request as the browser sent it; stage is "sent" until the server
\* takes it up, "handling" while its handler runs and until res.json(),
\* "answered" while the response travels back.
Request(method, name, content) ==
    [ method |-> method, name |-> name, content |-> content,
      stage |-> "sent", success |-> FALSE ]

\* function queueAutosave(): clearTimeout(autosaveTimer) and a new timer.
\* The edit ends what a confirmed delete has promised.
queueAutosave(c) ==
    [c EXCEPT !.autosaveTimer = AutosaveTicks, !.touched = TRUE, !.deleted = <<>>]

\* The user types into #projectTitle: the input listener is queueAutosave.
TypeTitle(title) ==
    /\ title # client.title
    /\ client' = queueAutosave([client EXCEPT !.title = title])
    /\ UNCHANGED <<data, file, pc, resp, issued, diskWritable, notes, fsAccess, calls, loginSucceeded, inflight>>

\* The user types into #projectEditor: the input listener is queueAutosave.
TypeText(text) ==
    /\ text # client.editor
    /\ client' = queueAutosave([client EXCEPT !.editor = text])
    /\ UNCHANGED <<data, file, pc, resp, issued, diskWritable, notes, fsAccess, calls, loginSucceeded, inflight>>

\* One second passes; a timer that is due fires before the next second.
\* unsaved counts the seconds a note with a title has spent since the
\* first edit that no save request and no firing of the timer has followed.
Tick ==
    /\ client.autosaveTimer # 0
    /\ client.unsaved < MaxUnsaved
    /\ client' = [client EXCEPT
                    !.autosaveTimer = IF @ > 0 THEN @ - 1 ELSE @,
                    !.unsaved = IF client.autosaveTimer > 0 /\ trim(client.title) # <<>>
                                THEN @ + 1 ELSE @]
    /\ UNCHANGED <<data, file, pc, resp, issued, diskWritable, notes, fsAccess, calls, loginSucceeded, inflight>>

\* The part of saveProjectFile(silent) up to its fetch: no request when
\* the trimmed title is empty, else POST /api/projects with the name
\* (plus '.md') and the markdown of the editor.
saveProjectFile(c, sent) ==
    LET name == trim(c.title)
    IN  IF name = <<>> THEN sent
        ELSE Append(sent, Request("POST", IF endsWith(name, DotMd) THEN name ELSE name \o DotMd,
                                  c.editor))

\* The autosave timer fires: saveProjectFile(true)
AutosaveFires ==
    /\ client.autosaveTimer = 0
    /\ Len(inflight) < MaxInflight
    /\ inflight' = saveProjectFile(client, inflight)
    /\ client' = [client EXCEPT !.autosaveTimer = -1, !.unsaved = 0]
    /\ UNCHANGED <<data, file, pc, resp, issued, diskWritable, notes, fsAccess, calls, loginSucceeded>>

\* The user clicks Save: saveProjectFile()
ClickSave ==
    /\ Len(inflight) < MaxInflight
    /\ inflight' = saveProjectFile(client, inflight)
    /\ client' = [client EXCEPT !.touched = TRUE, !.deleted = <<>>,
                                !.unsaved = IF inflight' # inflight THEN 0 ELSE @]
    /\ UNCHANGED <<data, file, pc, resp, issued, diskWritable, notes, fsAccess, calls, loginSucceeded>>


\* deleteProjectFile() up to its fetch, the user confirming: DELETE
\* /api/projects/<currentProjectFile || title, plus '.md'>
ClickDelete ==
    /\ trim(client.title) # <<>> \/ client.currentProjectFile # <<>>
    /\ Len(inflight) < MaxInflight
    /\ LET filename == IF client.currentProjectFile # <<>> THEN client.currentProjectFile
                       ELSE trim(client.title)
       IN  inflight' = Append(inflight,
               Request("DELETE", IF endsWith(filename, DotMd) THEN filename ELSE filename \o DotMd,
                       <<>>))
    /\ client' = [client EXCEPT !.touched = FALSE]
    /\ UNCHANGED <<data, file, pc, resp, issued, diskWritable, notes, fsAccess, calls, loginSucceeded>>

\* The request whose handler runs, if any
Handling == {i \in DOMAIN inflight : inflight[i].stage = "handling"}

\* The event loop of the server takes up the request that arrived first;
\* requests arrive in the order sent, handlers run one at a time.
Dispatch ==
    /\ pc = "running"
    /\ Handling = {}
    /\ \E i \in DOMAIN inflight :
        /\ inflight[i].stage = "sent"
        /\ \A j \in 1..(i - 1) : inflight[j].stage # "sent"
        /\ inflight' = [inflight EXCEPT ![i].stage = "handling"]
    /\ resp' = NoResponse
    /\ UNCHANGED <<data, file, pc, issued, diskWritable, notes, fsAccess, calls, loginSucceeded, client>>

\* The handler of the request taken up runs: app.post('/api/projects') or
\* app.delete('/api/projects/:name')
HandleSave ==
    \E i \in Handling :
        /\ inflight[i].method = "POST" /\ resp = NoResponse
        /\ SaveProject([name |-> inflight[i].name, content |-> inflight[i].content])

HandleDelete ==
    \E i \in Handling :
        /\ inflight[i].method = "DELETE" /\ resp = NoResponse
        /\ DeleteProject(inflight[i].name)

\* res.json(...) / res.status(...).json(...): the response leaves the server
Respond ==
    \E i \in Handling :
        /\ resp # NoResponse
        /\ inflight' = [inflight EXCEPT ![i].stage = "answered",
                                        ![i].success = resp.json.success]
        /\ UNCHANGED <<data, file, pc, resp, issued, diskWritable, notes, fsAccess, calls, loginSucceeded, client>>

\* inflight without its i-th request
without(requests, i) ==
    SubSeq(requests, 1, i - 1) \o SubSeq(requests, i + 1, Len(requests))

\* The browser receives a response.  saveProjectFile after its await:
\* currentProjectFile = name on success.  deleteProjectFile after its
\* await: on success currentProjectFile = '', title and editor emptied
\* (a value set by script fires no input event); the timer is not cleared.
Deliver(i) ==
    /\ i \in DOMAIN inflight /\ inflight[i].stage = "answered"
    /\ inflight' = without(inflight, i)
    /\ LET r == inflight[i]
       IN  client' = IF ~r.success THEN client
                     ELSE IF r.method = "POST"
                          THEN [client EXCEPT !.currentProjectFile = r.name]
                          ELSE [client EXCEPT !.currentProjectFile = <<>>, !.title = <<>>,
                                              !.editor = <<>>,
                                              !.deleted = IF client.touched THEN <<>> ELSE r.name]
    /\ UNCHANGED <<data, file, pc, resp, issued, diskWritable, notes, fsAccess, calls, loginSucceeded>>

\* What the user types
Titles == {Plan, <<>>}

Texts == {Hi, Bye}

EditorInit == Init /\ file = AbsentFile

EditorNext ==
    \/ LoadData
    \/ \E title \in Titles : TypeTitle(title)
    \/ \E text \in Texts : TypeText(text)
    \/ Tick
    \/ AutosaveFires
    \/ ClickSave
    \/ ClickDelete
    \/ Dispatch
    \/ HandleSave
    \/ HandleDelete
    \/ Respond
    \/ \E i \in DOMAIN inflight : Deliver(i)

EditorSpec == EditorInit /\ [][EditorNext]_vars

-----------------------------------------------------------------------------
(* Create requests of several clients in flight at once.  The handlers of
   app.post('/api/links') and app.post('/api/categories') contain no await
   and saveData writes with writeFileSync: each runs from its first
   statement to res.json without a suspension point. *)

\* A create request as it arrived at the server
CreateRequest(route, body) ==
    [ route |-> route, body |-> body, stage |-> "sent", success |-> FALSE ]

ConcurrentLinkBodies ==
    { [name |-> NAS, url |-> RouterUrl],
      [name |-> Router, url |-> RouterUrl, categoryId |-> Num(1)],
      [name |-> Router] }

ConcurrentCategoryBodies == { [name |-> Tools], [name |-> Blank] }

\* POST /api/links arrives
SendCreateLink(body) ==
    /\ Len(inflight) < MaxInflight
    /\ inflight' = Append(inflight, CreateRequest("links", body))
    /\ UNCHANGED <<data, file, pc, resp, issued, diskWritable, notes, fsAccess, calls, loginSucceeded, client>>

\* POST /api/categories arrives
SendCreateCategory(body) ==
    /\ Len(inflight) < MaxInflight
    /\ inflight' = Append(inflight, CreateRequest("categories", body))
    /\ UNCHANGED <<data, file, pc, resp, issued, diskWritable, notes, fsAccess, calls, loginSucceeded, client>>

\* The handler of the request taken up runs to its res.json
HandleCreateLink ==
    \E i \in Handling :
        /\ inflight[i].route = "links" /\ resp = NoResponse
        /\ CreateLink(inflight[i].body)

HandleCreateCategory ==
    \E i \in Handling :
        /\ inflight[i].route = "categories" /\ resp = NoResponse
        /\ CreateCategory(inflight[i].body)

\* A client receives its response
Receive(i) ==
    /\ i \in DOMAIN inflight /\ inflight[i].stage = "answered"
    /\ inflight' = without(inflight, i)
    /\ UNCHANGED <<data, file, pc, resp, issued, diskWritable, notes, fsAccess, calls, loginSucceeded, client>>

ConcurrentInit == Init /\ file = AbsentFile

ConcurrentNext ==
    \/ LoadData
    \/ \E body \in ConcurrentLinkBodies : SendCreateLink(body)
    \/ \E body \in ConcurrentCategoryBodies : SendCreateCategory(body)
    \/ Dispatch
    \/ HandleCreateLink
    \/ HandleCreateCategory
    \/ Respond
    \/ \E i \in DOMAIN inflight : Receive(i)

ConcurrentSpec == ConcurrentInit /\ [][ConcurrentNext]_vars

-----------------------------------------------------------------------------
(* ensureNavigationCategory() applied to the category lists a document may
   hold when it is called: lists of up to MaxListed categories, with and
   without a default category, under the name NAVIGATION and under others *)

EnsureCategories ==
    { [ id |-> -1, name |-> NAVIGATION, private |-> FALSE, order |-> Num(-1),
        isDefault |-> TRUE, createdAt |-> "earlier" ],
      [ id |-> -1, name |-> Media, private |-> FALSE, order |-> Num(-1),
        isDefault |-> TRUE, createdAt |-> "earlier" ],
      [ id |-> 1, name |-> NAVIGATION, private |-> FALSE, order |-> Num(1),
        createdAt |-> "earlier" ],
      [ id |-> 1, name |-> Tools, private |-> TRUE, order |-> Num(0),
        isDefault |-> FALSE, createdAt |-> "earlier" ] }

EnsureLists ==
    UNION { [1..n -> EnsureCategories] : n \in 0..MaxListed }

\* The document as the merge of loadData has left it
EnsureInit ==
    /\ \E categories \in EnsureLists, nextCategoryId \in 0..2 :
          data = [DefaultData EXCEPT !.categories = categories,
                                     !.nextCategoryId = nextCategoryId]
    /\ file = AbsentFile
    /\ pc = "start"
    /\ resp = NoResponse
    /\ issued = NoIssued
    /\ diskWritable = TRUE
    /\ notes = NoNotes
    /\ fsAccess = {}
    /\ calls = {}
    /\ loginSucceeded = FALSE
    /\ client = ClosedEditor
    /\ inflight = <<>>

\* ensureNavigationCategory() as loadData calls it before app.listen
EnsureNavigation ==
    /\ pc = "start"
    /\ \E now \in Times : data' = ensureNavigationCategory(data, now)
    /\ pc' = "running"
    /\ UNCHANGED <<file, resp, issued, diskWritable, notes, fsAccess, calls, loginSucceeded, client, inflight>>

EnsureNext ==
    \/ EnsureNavigation
    \/ GetCategories

EnsureSpec == EnsureInit /\ [][EnsureNext]_vars

-----------------------------------------------------------------------------

Next ==
    \/ LoadData
    \/ GetLinks
    \/ \E body \in LinkBodies : CreateLink(body)
    \/ \E idParam \in LinkIdParams, body \in LinkUpdateBodies : UpdateLink(idParam, body)
    \/ \E idParam \in LinkIdParams : DeleteLink(idParam)
    \/ GetCategories
    \/ \E body \in CategoryBodies : CreateCategory(body)
    \/ \E idParam \in CategoryIdParams : DeleteCategory(idParam)

Spec == Init /\ [][Next]_vars

-----------------------------------------------------------------------------
(* Properties *)

Categories == {data.categories[i] : i \in 1..Len(data.categories)}

Links == {data.links[i] : i \in 1..Len(data.links)}

DefaultPositions == {i \in 1..Len(data.categories) : IsDefault(data.categories[i])}

\* C1: once the startup load is done, exactly one category has
\* isDefault = true, and that category has id -1, whatever the persisted
\* file held and whatever requests followed.
C1_ExactlyOneDefaultCategory ==
    pc = "running" =>
        /\ Cardinality(DefaultPositions) = 1
        /\ \A i \in DefaultPositions : data.categories[i].id = -1

\* C2: the load step merges chatConfig, filterConfig and colorConfig key
\* by key over the defaults: afterwards every default key is present,
\* with the persisted value where the file has the key and the default
\* value where it has not.
C2_LoadMergesConfigKeyWise ==
    [][ (pc = "start" /\ pc' = "running" /\ file.kind = "json") =>
          \A cfg \in ConfigKeys \cap DOMAIN file.doc :
              \A k \in DOMAIN DefaultData[cfg] :
                  /\ k \in DOMAIN data'[cfg]
                  /\ data'[cfg][k] = IF k \in DOMAIN file.doc[cfg]
                                     THEN file.doc[cfg][k]
                                     ELSE DefaultData[cfg][k] ]_vars

\* C3: every link whose categoryId is not null carries the id of a
\* category that is in the document.
C3_LinkCategoryExists ==
    \A l \in Links :
        l.categoryId.t # "null" =>
            \E c \in Categories : StrictEqNum(c.id, l.categoryId)

\* A category delete that was answered with success.
CategoryDeleted(idParam) == DeleteCategory(idParam) /\ resp'.status = 200

\* C4: deleting an existing non-default category removes exactly that
\* category, sets categoryId = null on exactly the links that referenced
\* it, removes no link and changes nothing else.
C4_DeleteCategoryOrphansLinks ==
    [][ \A idParam \in CategoryIdParams :
          CategoryDeleted(idParam) =>
            LET id == idParam.v
                refers(l) == l.categoryId.t = "number" /\ l.categoryId.v = id
            IN  /\ Len(data'.categories) = Len(data.categories) - 1
                /\ \E i \in 1..Len(data.categories) :
                      /\ data.categories[i].id = id
                      /\ ~IsDefault(data.categories[i])
                      /\ \A j \in 1..Len(data'.categories) :
                            data'.categories[j] =
                                data.categories[IF j < i THEN j ELSE j + 1]
                /\ Len(data'.links) = Len(data.links)
                /\ \A j \in 1..Len(data.links) :
                      IF refers(data.links[j])
                      THEN /\ data'.links[j].categoryId = null
                           /\ [k \in DOMAIN data.links[j] \ {"categoryId"} |-> data'.links[j][k]]
                                = [k \in DOMAIN data.links[j] \ {"categoryId"} |-> data.links[j][k]]
                           /\ DOMAIN data'.links[j] = DOMAIN data.links[j]
                      ELSE data'.links[j] = data.links[j]
                /\ data'.nextId = data.nextId
                /\ data'.nextCategoryId = data.nextCategoryId ]_vars

\* Category 1 is gone and both links, which referenced it, are orphans:
\* a delete with N = 2 referencing links has happened.
C4_Witness ==
    /\ Len(data.links) = 2
    /\ \A l \in Links : l.name = Router /\ l.categoryId = null
    /\ \A c \in Categories : c.id # 1
    /\ data.nextCategoryId > 1

\* C5: a request to delete the default category (id -1) is answered 400
\* 'Cannot delete default system category' and changes neither the
\* document nor the persisted file.
C5_DeleteDefaultForbidden ==
    [][ DeleteCategory(NumStr(-1)) =>
          /\ resp'.status = 400
          /\ resp'.json.error = <<"Cannot delete default system category">>
          /\ UNCHANGED <<data, file>> ]_vars

\* C6, state part: every id in use is below its counter.
CountersAboveIds ==
    /\ \A l \in Links : l.id < data.nextId
    /\ \A c \in Categories : c.id < data.nextCategoryId

\* C6: nextId is greater than every link id, nextCategoryId is greater
\* than every category id, and no step decreases either counter.
C6_CountersAboveIdsAndMonotonic ==
    /\ []CountersAboveIds
    /\ [][ /\ data'.nextId >= data.nextId
           /\ data'.nextCategoryId >= data.nextCategoryId ]_vars

\* Both counters were advanced by creates of this process, and link 1
\* has been deleted since.
C6_Witness ==
    /\ pc = "running"
    /\ issued.links = {1, 2}
    /\ issued.categories = {1}
    /\ data.nextId = 3
    /\ data.nextCategoryId = 2
    /\ \E l \in Links : l.id = 2
    /\ \A l \in Links : l.id # 1
    /\ \E c \in Categories : c.id = 1

\* A link create or a category create that was answered with success.
LinkCreated == (\E body \in LinkBodies : CreateLink(body)) /\ resp'.status = 200

CategoryCreated ==
    (\E body \in CategoryBodies : CreateCategory(body)) /\ resp'.status = 200

IsCategoryList == resp.status = 200 /\ "categories" \in DOMAIN resp.json

\* C8: the category list() is in non-decreasing order and its first
\* element is the default category.
C8_ListSortedDefaultFirst ==
    (IsCategoryList /\ resp.json.categories # <<>>) =>
        LET list == resp.json.categories
        IN  /\ \A i \in 1..(Len(list) - 1) : OrderKey(list[i]) <= OrderKey(list[i + 1])
            /\ IsDefault(list[1])

\* The store as a start without a persisted file leaves it, as far as
\* links and categories go.
FreshStore ==
    /\ pc = "running"
    /\ file.kind = "absent"
    /\ data.links = <<>>
    /\ Len(data.categories) = 1
    /\ data.categories[1].id = -1
    /\ data.nextId = 1
    /\ data.nextCategoryId = 1

\* The fresh store after category 'Tools' was created.
ToolsCreated ==
    /\ pc = "running"
    /\ data.links = <<>>
    /\ data.nextId = 1
    /\ Len(data.categories) = 2
    /\ data.categories[1].id = -1
    /\ data.categories[2].id = 1
    /\ data.categories[2].name = Tools

\* ... and after link 'Router' was created in category 1.
RouterCreated ==
    /\ pc = "running"
    /\ Len(data.categories) = 2
    /\ data.categories[1].id = -1
    /\ data.categories[2].id = 1
    /\ data.categories[2].name = Tools
    /\ Len(data.links) = 1
    /\ data.links[1].id = 1
    /\ data.links[1].name = Router
    /\ data.links[1].categoryId = Num(1)

RouterBody == [name |-> Router, url |-> RouterUrl, categoryId |-> Num(1)]

\* Steps two and three of the scenario: the link gets id 1 and
\* categoryId 1; deleting category 1 takes it off list() and leaves
\* link 1 with categoryId null.
ScenarioLinkAndDelete ==
    /\ (ToolsCreated /\ CreateLink(RouterBody)) =>
          /\ resp'.status = 200
          /\ resp'.json.link.id = 1
          /\ resp'.json.link.categoryId = Num(1)
    /\ (RouterCreated /\ DeleteCategory(NumStr(1))) =>
          /\ resp'.status = 200
          /\ \A i \in 1..Len(sortByOrder(data'.categories)) :
                sortByOrder(data'.categories)[i].id # 1
          /\ Len(data'.links) = 1
          /\ data'.links[1].id = 1
          /\ data'.links[1].categoryId = null

C10_FreshStoreListsOnlyDefault ==
    [][ (pc = "start" /\ file.kind = "absent" /\ LoadData) =>
          LET list == sortByOrder(data'.categories)
          IN  /\ Len(list) = 1
              /\ list[1].id = -1
              /\ IsDefault(list[1])
              /\ data'.links = <<>> ]_vars

\* The category list was requested right after a start without a file.
C10_Witness ==
    /\ file.kind = "absent"
    /\ IsCategoryList
    /\ Len(resp.json.categories) = 1
    /\ resp.json.categories[1].id = -1

\* The request bodies that pass validateRequiredFields(['name', 'url']).
ValidLinkBodies(bodies) ==
    {body \in bodies : validateRequiredFields(body, <<"name", "url">>) = <<>>}

\* The links after POST /api/links with `body`, then PUT /api/links/:id
\* with `update` and DELETE /api/links/:id, both with the id that the
\* create returned, or <<"failed">> if one of the three is not answered
\* with success.
RoundTripLinks(d, body, update) ==
    LET created == newLink(d, body, "now")
        d1 == pushLink(d, created)
        idParam == NumStr(created.id)
        i1 == findIndex(d1.links, parseInt(idParam))
        d2 == [d1 EXCEPT !.links[i1] = updatedLink(d1.links[i1], update, "now")]
        i2 == findIndex(d2.links, parseInt(idParam))
        d3 == [d2 EXCEPT !.links = splice(@, i2)]
    IN  IF i1 = 0 \/ i2 = 0 THEN <<"failed">> ELSE d3.links

\* C11: from any reachable state, link create followed by update of the
\* created id followed by delete of the created id leaves the links,
\* with every field of every link, as they were before the create.
C11_LinkRoundTrip ==
    pc = "running" =>
        \A body \in ValidLinkBodies(LinkBodies), update \in ValidLinkBodies(LinkUpdateBodies) :
            RoundTripLinks(data, body, update) = data.links

\* Link 2 was created and deleted again by this process, and the link
\* that the persisted file held is the only one, as it was loaded.
C11_Witness ==
    /\ pc = "running"
    /\ issued.links = {2}
    /\ resp = Ok(NoBody)
    /\ data.nextId = 3
    /\ data.links = LegacyDoc.links

\* A primaryColor that is '#' followed by exactly six hex digits.
IsValidColor(body) ==
    /\ "primaryColor" \in DOMAIN body
    /\ body.primaryColor.t = "string"
    /\ IsHexColor(body.primaryColor.s)

\* C12: setting primaryColor to a value that is not '#' followed by
\* exactly six hex digits is answered with a validation error and leaves
\* the stored colour unchanged; setting it to a valid value succeeds,
\* and a get returns exactly the stored value.
C12_ColorValidated ==
    [][ /\ \A body \in ColorBodies :
              SetColorConfig(body) =>
                  IF IsValidColor(body)
                  THEN /\ resp'.status = 200
                       /\ data'.colorConfig = [primaryColor |-> body.primaryColor]
                  ELSE /\ resp'.status = 400
                       /\ data'.colorConfig = data.colorConfig
        /\ GetColorConfig => resp'.json.config = data.colorConfig ]_vars

\* The three provider tags of the configuration contract.
ProviderTags == {Flowise, Ollama, None}

\* C14: the stored chatConfig.provider is one of 'flowise', 'ollama',
\* 'none' after any sequence of chat-config sets, and a set whose
\* provider is none of them is answered with a validation error and
\* changes nothing.
C14_ProviderIsKnownTag ==
    /\ [](pc = "running" => data.chatConfig.provider \in ProviderTags)
    /\ [][ \A body \in ChatBodies :
              (SetChatConfig(body) /\ OrElse(body, "provider", Flowise) \notin ProviderTags) =>
                  /\ resp'.status = 400
                  /\ UNCHANGED <<data, file>> ]_vars

C15_UnusableFileLeavesDefaults ==
    [][ LoadData => (pc' = "running" /\ data' = DefaultData) ]_vars

\* C16: when the disk write of saveData() fails during a mutating
\* request, the request is still answered with success, the in-memory
\* document holds the mutation, no request is answered with a server
\* error, and the process keeps running.
C16_FailedSaveIsSwallowed ==
    [][ (~diskWritable /\ pc = "running") =>
          /\ pc' = "running"
          /\ resp'.status # 500
          /\ data' # data => (resp'.status = 200 /\ resp'.json.success /\ file' = file)
          /\ \A body \in ValidLinkBodies(DiskLinkBodies) :
                CreateLink(body) =>
                    /\ resp'.status = 200
                    /\ data'.links = Append(data.links, resp'.json.link)
          /\ \A body \in TitleBodies :
                (SetSiteTitle(body) /\ validateRequiredFields(body, <<"title">>) = <<>>) =>
                    /\ resp'.status = 200
                    /\ data'.siteTitle = trim(body.title) ]_vars

\* The disk failed on a first start; since then a link was created and
\* the site title was set, both in memory only, and the last request was
\* answered with success.
C16_Witness ==
    /\ ~diskWritable
    /\ file.kind = "absent"
    /\ pc = "running"
    /\ data.links # <<>>
    /\ data.siteTitle = Tools
    /\ resp.status = 200

\* C17: for every note name and every content string, write(name,
\* content) succeeds and stores exactly content under the sanitized name
\* with the .md extension, replacing what was there and touching no
\* other note; read of a stored name returns its content; list() holds
\* every stored .md name; delete of a stored name removes it, and read
\* of a name that is not stored fails with NotFound.
C17_NotesRoundTrip ==
    [][ /\ \A body \in ProjectBodies :
              (/\ SaveProject(body)
               /\ {"name", "content"} \subseteq DOMAIN body
               /\ trim(body.name) # EmptyString) =>
                  /\ resp'.status = 200
                  /\ DOMAIN notes' = DOMAIN notes \cup {projectFileName(body.name)}
                  /\ notes'[projectFileName(body.name)] = body.content
                  /\ \A n \in DOMAIN notes \ {projectFileName(body.name)} : notes'[n] = notes[n]
        /\ \A n \in {PlanMd} :
              /\ ReadProject(n) =>
                    IF n \in DOMAIN notes
                    THEN resp' = Ok([content |-> notes[n]])
                    ELSE resp'.status = 404
              /\ DeleteProject(n) =>
                    IF n \in DOMAIN notes
                    THEN resp'.status = 200 /\ DOMAIN notes' = DOMAIN notes \ {n}
                    ELSE resp'.status = 404
        /\ ListProjects =>
              resp'.json.files = {n \in DOMAIN notes : endsWith(n, DotMd)} ]_vars

\* C18: for every name a caller supplies, the path that notes read,
\* write and delete hand to the file system is a direct child of the
\* notes directory, never the directory itself or a path outside it.
C18_NotesStayInDirectory ==
    \A filePath \in fsAccess : filePath.where = "child"

\* C19: every status check and every Ollama proxy request whose upstream
\* server stays silent is answered all the same, because an explicit
\* timeout aborts the outbound call: every outbound call in flight
\* carries a timer, and the expiry of the timer is enabled.
C19_OutboundCallsCarryTimeout ==
    \A c \in calls : c.timeout > 0 /\ ENABLED TimeoutFires(c)

\* C20: the settings are password-protected: no request changes links,
\* categories, site title, colours, filters, chat config or project
\* notes unless a login with the correct admin password has succeeded
\* before.
C20_SettingsNeedLogin ==
    [][ (pc = "running" /\ (data' # data \/ notes' # notes)) => loginSucceeded ]_vars

\* C21: while the user keeps editing a note with a title, a save request
\* is issued at least once in every 2-second interval: as long as the
\* last edit is less than 2 seconds old, no more than AutosaveTicks
\* seconds have passed since the first edit without a save request.
C21_SavedEveryTwoSeconds ==
    (client.autosaveTimer > 0 /\ trim(client.title) # <<>>)
        => client.unsaved <= AutosaveTicks

\* C30: once deleteProjectFile has received a successful delete response
\* for a note, the note stays absent on the server until the user edits
\* or saves again; an autosave queued before the delete never re-creates
\* the file.
C30_DeletedNoteStaysAbsent ==
    client.deleted # <<>> => client.deleted \notin DOMAIN notes

\* The ids of the entries of a list
idsOf(entries) == { entries[i].id : i \in DOMAIN entries }

C23_RestartPreservesDocument ==
    [][ (pc = "running" /\ data' # data /\ file' = saveData(data', file, TRUE))
            => \A now \in Times : loadData(DefaultData, file', now) = data' ]_vars

\* C24: after any sequence of category create, delete, setPrivacy and
\* reorder operations, the first element the category list returns is the
\* default category.
C24_DefaultCategoryListedFirst ==
    [][ GetCategories => IsDefault(resp'.json.categories[1]) ]_vars

\* What an update with this body has to make of the link `before`:
\* name, url and categoryId replaced (an omitted categoryId is null, a
\* numeric one is that number), updatedAt set, every other key kept.
IsUpdateOf(after, before, body) ==
    /\ DOMAIN after = DOMAIN before \cup {"updatedAt"}
    /\ \A k \in DOMAIN before \ {"name", "url", "categoryId", "updatedAt"} :
          after[k] = before[k]
    /\ after.name = trim(body.name)
    /\ after.url = trim(body.url)
    /\ "categoryId" \notin DOMAIN body => after.categoryId = null
    /\ ("categoryId" \in DOMAIN body /\ body.categoryId.t \in {"number", "string"}
            /\ body.categoryId.v # 0)
          => after.categoryId = Num(body.categoryId.v)
    /\ after.updatedAt \in Times

\* C25: a link update of an absent id fails with NotFound and changes
\* nothing; an update of an existing id replaces name, url and categoryId,
\* sets updatedAt, keeps the link's id, createdAt and position, and
\* leaves every other link, all categories and both counters unchanged.
\* (A body without name or url is answered 400 before the id is looked
\* up, and changes nothing either.)
C25_UpdateLinkFrame ==
    [][ \A idParam \in LinkIdParams, body \in LinkUpdateBodies :
          UpdateLink(idParam, body) =>
            LET linkIndex == findIndex(data.links, parseInt(idParam))
                valid == validateRequiredFields(body, <<"name", "url">>) = <<>>
            IN  IF ~valid
                THEN resp'.status = 400 /\ UNCHANGED <<data, file>>
                ELSE IF linkIndex = 0
                THEN resp'.status = 404 /\ UNCHANGED <<data, file>>
                ELSE /\ resp'.status = 200
                     /\ Len(data'.links) = Len(data.links)
                     /\ \A j \in DOMAIN data.links :
                           j # linkIndex => data'.links[j] = data.links[j]
                     /\ IsUpdateOf(data'.links[linkIndex], data.links[linkIndex], body)
                     /\ \A k \in DOMAIN data \ {"links"} : data'[k] = data[k]
                     /\ DOMAIN data' = DOMAIN data ]_vars

\* The first of two links was just updated by a body without categoryId:
\* its categoryId is null, the second link is in its place.
C25_Witness ==
    /\ pc = "running"
    /\ resp.status = 200 /\ "link" \in DOMAIN resp.json
    /\ Len(data.links) = 2
    /\ "updatedAt" \in DOMAIN data.links[1]
    /\ data.links[1] = resp.json.link
    /\ data.links[1].name = NAS /\ data.links[1].categoryId = null
    /\ "updatedAt" \notin DOMAIN data.links[2]

\* The assignments of a reorder batch that name the id of cat
assignmentsFor(items, cat) ==
    { i \in DOMAIN items : StrictEqNum(cat.id, items[i].id) }

\* A category without its order
withoutOrder(cat) == [k \in DOMAIN cat \ {"order"} |-> cat[k]]

\* The index of the category with this id
indexOf(categories, id) == CHOOSE i \in DOMAIN categories : categories[i].id = id

\* C26: a reorder that succeeds sets the order of every category whose id
\* appears in the assignments (the last assignment of an id counts),
\* ignores assignments of unknown ids, and leaves the category array
\* sorted by non-decreasing order with ties in their previous relative
\* position; the categories apart from their order, and all links, are
\* unchanged.
C26_ReorderSetsOrderAndSorts ==
    [][ \A body \in ReorderBodies :
          (ReorderCategories(body) /\ resp'.status = 200) =>
            LET items == body.categoryOrder.items
                old == data.categories
                new == data'.categories
            IN  /\ Len(new) = Len(old)
                /\ { withoutOrder(new[i]) : i \in DOMAIN new }
                      = { withoutOrder(old[i]) : i \in DOMAIN old }
                /\ \A i \in DOMAIN new :
                      LET named == assignmentsFor(items, new[i])
                      IN  IF named = {}
                          THEN new[i] = old[indexOf(old, new[i].id)]
                          ELSE new[i].order =
                                  items[CHOOSE k \in named : \A l \in named : l <= k].order
                /\ \A i, j \in DOMAIN new :
                      i < j =>
                        /\ OrderKey(new[i]) <= OrderKey(new[j])
                        /\ OrderKey(new[i]) = OrderKey(new[j])
                              => indexOf(old, new[i].id) < indexOf(old, new[j].id)
                /\ \A k \in DOMAIN data \ {"categories"} : data'[k] = data[k]
                /\ DOMAIN data' = DOMAIN data ]_vars

\* A reorder has just given category 1 the order of the default category
\* and ignored an assignment for the unknown id 7: the tie keeps the
\* default category first.
C26_Witness ==
    /\ pc = "running"
    /\ resp = Ok(NoBody)
    /\ Len(data.categories) = 2
    /\ data.categories[1].id = -1 /\ data.categories[1].order = Num(-1)
    /\ data.categories[2].id = 1 /\ data.categories[2].order = Num(-1)

HasDefault(categories) ==
    \E i \in DOMAIN categories : IsDefault(categories[i])

\* C28: ensureDefaultCategory is idempotent and keyed on the isDefault
\* flag: on a document in which some category has isDefault = true it
\* changes nothing; on a document with no such category it inserts at
\* position 0 one category with id -1, order -1, private = false and
\* isDefault = true; applying it twice equals applying it once.
C28_EnsureDefaultKeyedOnFlag ==
    [][ EnsureNavigation =>
          /\ HasDefault(data.categories) => data'.categories = data.categories
          /\ ~HasDefault(data.categories) =>
                /\ Len(data'.categories) = Len(data.categories) + 1
                /\ SubSeq(data'.categories, 2, Len(data'.categories)) = data.categories
                /\ data'.categories[1].id = -1
                /\ data'.categories[1].order = Num(-1)
                /\ data'.categories[1].private = FALSE
                /\ data'.categories[1].isDefault = TRUE
          /\ \A now \in Times : ensureNavigationCategory(data', now) = data' ]_vars

\* C29: reorder is all-or-nothing: whenever a reorder request is answered
\* with an error, no category's order or position has changed, and the
\* in-memory document still equals the last persisted one: neither the
\* document nor the file has changed.
C29_FailedReorderChangesNothing ==
    [][ \A body \in ReorderBodies :
          (ReorderCategories(body) /\ resp'.status >= 400) =>
            /\ data' = data
            /\ file' = file ]_vars

====
